---- MODULE Spec2Model ----
(***************************************************************************)
(* BonkGambit backend: GameManager (src/unnamed/part_000) and the GameState *)
(* record (src/backend1/src/types.ts).                                      *)
(*                                                                          *)
(* Every inbound message starts an async handler.  A handler suspends at    *)
(* each `await kv.get` / `await kv.set`, so the steps of different handlers *)
(* interleave at those points; one action below is the code that runs       *)
(* between two suspension points.                                           *)
(*                                                                          *)
(* chess.js is not part of the repository.  It is modelled by a small       *)
(* two-sided game with the features the handlers rely on: a position that   *)
(* records the side to move and a half-move clock, moves given as           *)
(* {from,to} that are legal only in some positions, a notation of the move  *)
(* that is not the {from,to} pair, checkmate for either side and a draw.    *)
(***************************************************************************)
EXTENDS Integers, Sequences, FiniteSets, Bags, TLC

\* ------------------------------------------------------------------ bounds
NumSockets == 2
NumGameIds == 1
MaxHandlers == 2
MaxEvents == 5
DrawPly == 2

\* the WebSocket objects of the connections the server accepts, in order
Sockets == 1..NumSockets
\* the identifiers generatePlayerId hands out
PlayerIds == 1..NumSockets
GameIds == 1..NumGameIds

\* `null` of the GameState fields player2Id and winner
NULL == 0
NoWinner == "null"

\* store     the records held by Vercel KV, by game id
\* sockets   GameManager.sockets: playerId -> socket
\* players   GameManager.players: socket -> playerId
\* handlers  the message handlers in flight (a bag: two messages may be equal)
\* out       the frames sent by the last step, in order
\* events    the connections, disconnections and messages so far
\* opened    the connections accepted so far
VARIABLES store, sockets, players, handlers, out, events, opened

vars == <<store, sockets, players, handlers, out, events, opened>>

\* ------------------------------------------------------- rules engine
\* the board is the squares 0..TopSq; the piece starts on StartSq
TopSq == 3
StartSq == 1
Squares == 0..TopSq

\* new Chess(): the initial position, white to move
InitialBoard == [sq |-> StartSq, turn |-> "w", half |-> 0]

\* board.fen(): the position serialised
Fen(b) == <<b.sq, b.turn, b.half>>

\* new Chess(fen): the position parsed
ChessFromFen(f) == [sq |-> f[1], turn |-> f[2], half |-> f[3]]

\* board.turn()
Turn(b) == b.turn

\* board.isCheckmate(): the side to move is mated
IsCheckmate(b) ==
    \/ b.turn = "b" /\ b.sq = TopSq
    \/ b.turn = "w" /\ b.sq = 0

\* draw by the half-move clock
IsDraw(b) == ~IsCheckmate(b) /\ b.half >= DrawPly

\* board.isGameOver()
IsGameOver(b) == IsCheckmate(b) \/ IsDraw(b)

\* the moves the side to move may play: white steps up, black steps down
IsLegal(b, mv) ==
    /\ ~IsCheckmate(b)
    /\ mv.from = b.sq
    /\ mv.to \in Squares
    /\ IF b.turn = "w" THEN (mv.to - mv.from) \in {1, 2}
                       ELSE (mv.from - mv.to) \in {1, 2}

\* the position after a legal move
AfterMove(b, mv) ==
    [sq |-> mv.to, turn |-> IF b.turn = "w" THEN "b" ELSE "w", half |-> b.half + 1]

\* moveResult.san: the target square, with the mate mark
San(b, mv) == [to |-> mv.to, mate |-> IsCheckmate(AfterMove(b, mv))]

\* board.move(move): the resulting board and the move's notation, or null
BoardMove(b, mv) ==
    IF IsLegal(b, mv)
    THEN [ok |-> TRUE, board |-> AfterMove(b, mv), san |-> San(b, mv)]
    ELSE [ok |-> FALSE, board |-> b, san |-> [to |-> mv.to, mate |-> FALSE]]

\* replaying a list of notations from the initial position
RECURSIVE Replay(_)
Replay(sans) ==
    IF sans = <<>> THEN InitialBoard
    ELSE LET prev == Replay(SubSeq(sans, 1, Len(sans) - 1))
             san == sans[Len(sans)]
         IN  AfterMove(prev, [from |-> prev.sq, to |-> san.to])

\* ------------------------------------------------------------ messages
\* the {from,to} payloads a client sends: the steps that are legal in some
\* position of a game; each is illegal where the piece stands on another
\* square, where the other side is to move and where a side is mated
InputMoves ==
    {m \in [from : Squares, to : Squares] :
        \/ m.from = StartSq /\ (m.to - m.from) \in {1, 2}
        \/ m.from = StartSq + 1 /\ (m.from - m.to) \in {1, 2}}

NoMove == [from |-> 0, to |-> 0]

Frame(sock, type, payload) == [sock |-> sock, type |-> type, payload |-> payload]

\* socket?.send(...): the frame is sent when the player has a live socket
Send(pid, type, payload) ==
    IF pid \in DOMAIN sockets THEN <<Frame(sockets[pid], type, payload)>> ELSE <<>>

\* ------------------------------------------------------------ records
\* the GameState written by handleCreateGame
NewGame(gameId, playerId) ==
    [gameId |-> gameId, player1Id |-> playerId, player2Id |-> NULL,
     fen |-> Fen(InitialBoard), moves |-> <<>>, status |-> "waiting",
     winner |-> NoWinner]

\* the working copy of a handler that has loaded nothing
NoGame == NewGame(0, 0)

\* kv.set(`game:${gameId}`, game)
KvSet(gameId, game) ==
    [g \in (DOMAIN store) \cup {gameId} |-> IF g = gameId THEN game ELSE store[g]]

\* Math.random()-based game id: nothing in the code keeps it apart from the
\* ids in use
generateGameId == GameIds

\* Math.random()-based player id: nothing in the code keeps it apart from the
\* ids handed out before.  Ids are named in the order of their first use, so
\* the next one is an earlier id or the first unused one.
generatePlayerId == 1..(opened + 1)

Init ==
    /\ store = <<>>
    /\ sockets = <<>>
    /\ players = <<>>
    /\ handlers = EmptyBag
    /\ out = <<>>
    /\ events = 0
    /\ opened = 0

\* one more connection, disconnection or message
Event ==
    /\ events < MaxEvents
    /\ events' = events + 1

\* ------------------------------------------------- connection registry
\* a new connection: a new WebSocket object
addUser(s) ==
    /\ Event
    /\ s = opened + 1
    /\ opened' = opened + 1
    /\ \E playerId \in generatePlayerId :
           /\ sockets' = [p \in (DOMAIN sockets) \cup {playerId} |->
                            IF p = playerId THEN s ELSE sockets[p]]
           /\ players' = [x \in (DOMAIN players) \cup {s} |->
                            IF x = s THEN playerId ELSE players[x]]
    /\ out' = <<>>
    /\ UNCHANGED <<store, handlers>>

\* variant: a disconnect forfeits the games in progress of the player
removeUserForfeits(s) ==
    /\ Event
    /\ IF s \in DOMAIN players
       THEN /\ players' = [x \in (DOMAIN players) \ {s} |-> players[x]]
            /\ sockets' = [p \in (DOMAIN sockets) \ {players[s]} |-> sockets[p]]
            /\ store' = [g \in DOMAIN store |->
                           IF /\ store[g].status = "inprogress"
                              /\ players[s] \in {store[g].player1Id, store[g].player2Id}
                           THEN [store[g] EXCEPT
                                   !.status = "complete",
                                   !.winner = IF players[s] = store[g].player1Id
                                              THEN "black" ELSE "white"]
                           ELSE store[g]]
       ELSE UNCHANGED <<sockets, players, store>>
    /\ out' = <<>>
    /\ UNCHANGED <<handlers, opened>>

removeUser(s) ==
    /\ Event
    /\ IF s \in DOMAIN players
       THEN /\ players' = [x \in (DOMAIN players) \ {s} |-> players[x]]
            /\ sockets' = [p \in (DOMAIN sockets) \ {players[s]} |-> sockets[p]]
       ELSE UNCHANGED <<sockets, players>>
    /\ out' = <<>>
    /\ UNCHANGED <<store, handlers, opened>>

\* ------------------------------------------------------ message arrival
\* socket.on("message"): a handler starts for the playerId bound at addUser
Start(kind, playerId, gameId, move, game) ==
    /\ BagCardinality(handlers) < MaxHandlers
    /\ handlers' = handlers (+) SetToBag({
          [pc |-> "received", kind |-> kind, playerId |-> playerId,
           gameId |-> gameId, move |-> move, found |-> FALSE, game |-> game]})

\* the handlers in flight
Running == BagToSet(handlers)

\* handler h moves on as h2
Continue(h, h2) == handlers' = (handlers (-) SetToBag({h})) (+) SetToBag({h2})

\* handler h returns
Finish(h) == handlers' = handlers (-) SetToBag({h})

\* case CREATE_GAME: the id is drawn and the record built before kv.set is awaited
CreateGameRecv(s) ==
    /\ Event
    /\ s \in DOMAIN players
    /\ \E gameId \in generateGameId :
         Start("create", players[s], gameId, NoMove, NewGame(gameId, players[s]))
    /\ out' = <<>>
    /\ UNCHANGED <<store, sockets, players, opened>>

\* case JOIN_GAME
JoinGameRecv(s, gameId) ==
    /\ Event
    /\ s \in DOMAIN players
    /\ Start("join", players[s], gameId, NoMove, NoGame)
    /\ out' = <<>>
    /\ UNCHANGED <<store, sockets, players, opened>>

\* case MOVE
MoveRecv(s, gameId, move) ==
    /\ Event
    /\ s \in DOMAIN players
    /\ Start("move", players[s], gameId, move, NoGame)
    /\ out' = <<>>
    /\ UNCHANGED <<store, sockets, players, opened>>

\* ---------------------------------------------------- handleCreateGame
CreatePersist ==
    \E h \in Running :
        /\ h.pc = "received"
        /\ h.kind = "create"
        /\ store' = KvSet(h.gameId, h.game)
        /\ Continue(h, [h EXCEPT !.pc = "stored"])
        /\ out' = <<>>
        /\ UNCHANGED <<sockets, players, events, opened>>

CreateDispatch ==
    \E h \in Running :
        /\ h.pc = "stored"
        /\ h.kind = "create"
        /\ out' = Send(h.playerId, "game_created", [gameId |-> h.gameId])
        /\ Finish(h)
        /\ UNCHANGED <<store, sockets, players, events, opened>>

\* ------------------------------------------------------------- kv.get
\* const game = await kv.get(`game:${gameId}`) of handleJoinGame and handleMove
Load ==
    \E h \in Running :
        /\ h.pc = "received"
        /\ h.kind \in {"join", "move"}
        /\ LET found == h.gameId \in DOMAIN store
           IN  Continue(h, [h EXCEPT !.pc = "loaded",
                                     !.found = found,
                                     !.game = IF found THEN store[h.gameId] ELSE NoGame])
        /\ out' = <<>>
        /\ UNCHANGED <<store, sockets, players, events, opened>>

\* ------------------------------------------------------ handleJoinGame
\* variant: only a finished game is closed to joins
JoinAvailableUntilComplete(game) == game.status # "complete"

\* the negation of `game.player2Id || game.status !== 'waiting'`
JoinAvailable(game) == ~(game.player2Id # NULL \/ game.status # "waiting")

\* variant: the join leaves the status as it was
JoinUpdateKeepsStatus(game, playerId) ==
    [game EXCEPT !.player2Id = playerId]

\* variant: the joiner is written over the creator
JoinUpdateAsPlayer1(game, playerId) ==
    [game EXCEPT !.player1Id = playerId, !.status = "inprogress"]

JoinUpdate(game, playerId) ==
    [game EXCEPT !.player2Id = playerId, !.status = "inprogress"]

JoinAbort ==
    \E h \in Running :
        /\ h.pc = "loaded"
        /\ h.kind = "join"
        /\ \/ /\ ~h.found
              /\ out' = Send(h.playerId, "error", [message |-> "Game not found."])
           \/ /\ h.found
              /\ ~JoinAvailable(h.game)
              /\ out' = Send(h.playerId, "error",
                             [message |-> "Game is not available to join."])
        /\ Finish(h)
        /\ UNCHANGED <<store, sockets, players, events, opened>>

JoinPersist ==
    \E h \in Running :
        /\ h.pc = "loaded"
        /\ h.kind = "join"
        /\ h.found
        /\ JoinAvailable(h.game)
        /\ LET game == JoinUpdate(h.game, h.playerId)
           IN  /\ store' = KvSet(h.gameId, game)
               /\ Continue(h, [h EXCEPT !.pc = "stored", !.game = game])
        /\ out' = <<>>
        /\ UNCHANGED <<sockets, players, events, opened>>

JoinDispatch ==
    \E h \in Running :
        /\ h.pc = "stored"
        /\ h.kind = "join"
        /\ out' = Send(h.game.player1Id, "init_game", [color |-> "white", gameId |-> h.gameId])
                  \o Send(h.game.player2Id, "init_game", [color |-> "black", gameId |-> h.gameId])
        /\ Finish(h)
        /\ UNCHANGED <<store, sockets, players, events, opened>>

\* ---------------------------------------------------------- handleMove
\* 1. the negation of `game.status !== 'inprogress' || !game.player2Id`
MoveInProgress(game) == ~(game.status # "inprogress" \/ game.player2Id = NULL)

\* 2. board.turn() === 'w' ? game.player1Id : game.player2Id
TurnPlayer(game) ==
    IF Turn(ChessFromFen(game.fen)) = "w" THEN game.player1Id ELSE game.player2Id

\* 3. board.move(move) on the loaded position
MoveResult(game, move) == BoardMove(ChessFromFen(game.fen), move)

\* variant: the move is pushed but the position is not written back
MovePlayedKeepsFen(game, r) ==
    [game EXCEPT !.moves = Append(@, r.san)]

\* variant: the move is applied to the record as stored at the time of the
\* write instead of the copy the handler loaded
MovePlayedOnStored(game, r) ==
    [store[game.gameId] EXCEPT !.fen = Fen(r.board), !.moves = Append(@, r.san)]

\* 4. game.fen = board.fen(); game.moves.push(moveResult.san)
MovePlayed(game, r) ==
    [game EXCEPT !.fen = Fen(r.board), !.moves = Append(@, r.san)]

\* variant: a game that ends without checkmate gets no winner
GameOverUpdateNoDraw(game, board) ==
    IF IsGameOver(board)
    THEN [game EXCEPT !.status = "complete",
                      !.winner = IF IsCheckmate(board)
                                 THEN (IF Turn(board) = "w" THEN "black" ELSE "white")
                                 ELSE @]
    ELSE game

\* variant: the winner is the side to move in the final position
GameOverUpdateWinnerToMove(game, board) ==
    IF IsGameOver(board)
    THEN [game EXCEPT !.status = "complete",
                      !.winner = IF IsCheckmate(board)
                                 THEN (IF Turn(board) = "w" THEN "white" ELSE "black")
                                 ELSE "draw"]
    ELSE game

\* 5. the game-over branch
GameOverUpdate(game, board) ==
    IF IsGameOver(board)
    THEN [game EXCEPT !.status = "complete",
                      !.winner = IF IsCheckmate(board)
                                 THEN (IF Turn(board) = "w" THEN "black" ELSE "white")
                                 ELSE "draw"]
    ELSE game

MoveUpdate(game, move) ==
    LET r == MoveResult(game, move)
    IN  GameOverUpdate(MovePlayed(game, r), r.board)

\* variant: the turn check is missing
MoveAcceptedAnySender(h) ==
    /\ h.found
    /\ MoveInProgress(h.game)
    /\ MoveResult(h.game, h.move).ok

\* variant: the result of board.move is not checked
MoveAcceptedAnyMove(h) ==
    /\ h.found
    /\ MoveInProgress(h.game)
    /\ h.playerId = TurnPlayer(h.game)

\* variant: the status of the game is not checked
MoveAcceptedAnyStatus(h) ==
    /\ h.found
    /\ h.playerId = TurnPlayer(h.game)
    /\ MoveResult(h.game, h.move).ok

\* the checks a move passes before anything is written
MoveAccepted(h) ==
    /\ h.found
    /\ MoveInProgress(h.game)
    /\ h.playerId = TurnPlayer(h.game)
    /\ MoveResult(h.game, h.move).ok

MoveAbort ==
    \E h \in Running :
        /\ h.pc = "loaded"
        /\ h.kind = "move"
        /\ ~MoveAccepted(h)
        /\ out' = <<>>
        /\ Finish(h)
        /\ UNCHANGED <<store, sockets, players, events, opened>>

MovePersist ==
    \E h \in Running :
        /\ h.pc = "loaded"
        /\ h.kind = "move"
        /\ MoveAccepted(h)
        /\ LET game == MoveUpdate(h.game, h.move)
           IN  /\ store' = KvSet(h.gameId, game)
               /\ Continue(h, [h EXCEPT !.pc = "stored", !.game = game])
        /\ out' = <<>>
        /\ UNCHANGED <<sockets, players, events, opened>>

\* variant: the move is forwarded to the opponent also when it ends the game
MoveFramesForwardsLast(h) ==
    (IF h.game.status = "complete"
     THEN Send(h.game.player1Id, "game_over", [winner |-> h.game.winner])
          \o Send(h.game.player2Id, "game_over", [winner |-> h.game.winner])
     ELSE <<>>)
    \o Send(IF h.playerId = h.game.player1Id THEN h.game.player2Id
                                             ELSE h.game.player1Id,
            "move", h.move)

\* 7. Notify players
MoveFrames(h) ==
    IF h.game.status = "complete"
    THEN Send(h.game.player1Id, "game_over", [winner |-> h.game.winner])
         \o Send(h.game.player2Id, "game_over", [winner |-> h.game.winner])
    ELSE Send(IF h.playerId = h.game.player1Id THEN h.game.player2Id
                                               ELSE h.game.player1Id,
              "move", h.move)

MoveDispatch ==
    \E h \in Running :
        /\ h.pc = "stored"
        /\ h.kind = "move"
        /\ out' = MoveFrames(h)
        /\ Finish(h)
        /\ UNCHANGED <<store, sockets, players, events, opened>>

\* ------------------------------------------------------ store failures
\* `await kv.get(...)` rejects: the listener's promise rejects and none of
\* the statements after the await runs
KvGetFail ==
    \E h \in Running :
        /\ h.pc = "received"
        /\ h.kind \in {"join", "move"}
        /\ Finish(h)
        /\ out' = <<>>
        /\ UNCHANGED <<store, sockets, players, events, opened>>

\* handler h has reached its `await kv.set(...)`
AtKvSet(h) ==
    \/ h.pc = "received" /\ h.kind = "create"
    \/ h.pc = "loaded" /\ h.kind = "join" /\ h.found /\ JoinAvailable(h.game)
    \/ h.pc = "loaded" /\ h.kind = "move" /\ MoveAccepted(h)

\* the record handler h passes to kv.set
Written(h) ==
    CASE h.kind = "create" -> h.game
      [] h.kind = "join" -> JoinUpdate(h.game, h.playerId)
      [] h.kind = "move" -> MoveUpdate(h.game, h.move)

\* variant: the rejection of kv.set is caught and the handler goes on to its
\* notification with the record it meant to write
KvSetFailSwallowed ==
    \E h \in Running :
        /\ AtKvSet(h)
        /\ Continue(h, [h EXCEPT !.pc = "stored", !.game = Written(h)])
        /\ out' = <<>>
        /\ UNCHANGED <<store, sockets, players, events, opened>>

\* variant: kv.set is not awaited, so the frames go out whatever its outcome
KvSetFailNotifies ==
    \E h \in Running :
        /\ AtKvSet(h)
        /\ store' \in {store, KvSet(h.gameId, Written(h))}
        /\ Finish(h)
        /\ out' = CASE h.kind = "create" ->
                         Send(h.playerId, "game_created", [gameId |-> h.gameId])
                     [] h.kind = "join" ->
                         Send(h.game.player1Id, "init_game",
                              [color |-> "white", gameId |-> h.gameId])
                         \o Send(h.playerId, "init_game",
                                 [color |-> "black", gameId |-> h.gameId])
                     [] h.kind = "move" ->
                         MoveFrames([h EXCEPT !.game = Written(h)])
        /\ UNCHANGED <<sockets, players, events, opened>>

\* `await kv.set(...)` rejects: the store holds the old record, or the new one
\* when the write was applied before the error came back; none of the
\* statements after the await runs
KvSetFail ==
    \E h \in Running :
        /\ AtKvSet(h)
        /\ store' \in {store, KvSet(h.gameId, Written(h))}
        /\ Finish(h)
        /\ out' = <<>>
        /\ UNCHANGED <<sockets, players, events, opened>>

\* -------------------------------------------------------------- client
\* the state of the Game screen: useState(new Chess()), playerColor null and
\* the status line
InitialGame ==
    [chess |-> InitialBoard, playerColor |-> "null",
     status |-> "Waiting for opponent..."]

\* the message effect of the Game screen: init_game starts a new board and
\* sets the colour; move plays the {from,to} of the payload on a copy of the
\* local position (a move the rules engine refuses leaves the position);
\* game_over sets the status line only
GameEffect(local, f) ==
    CASE f.type = "init_game" ->
            [chess |-> InitialBoard,
             playerColor |-> IF f.payload.color = "white" THEN "w" ELSE "b",
             status |-> "Game started."]
      [] f.type = "move" ->
            [local EXCEPT !.chess = BoardMove(@, f.payload).board]
      [] f.type = "game_over" ->
            [local EXCEPT !.status = "Game Over"]
      [] OTHER -> local

\* the Game screen after the frames of a sequence, in order
RECURSIVE GameEffects(_, _)
GameEffects(local, frames) ==
    IF frames = <<>> THEN local
    ELSE GameEffects(GameEffect(local, Head(frames)), Tail(frames))

\* handleMove of the Game screen: nothing happens when it is not the player's
\* turn or the local board refuses the move; otherwise the move is played on
\* the local board at once and sent to the server
GameHandleMove(local, move) ==
    IF Turn(local.chess) # local.playerColor
    THEN [local |-> local, sent |-> <<>>]
    ELSE LET result == BoardMove(local.chess, move)
         IN  IF result.ok
             THEN [local |-> [local EXCEPT !.chess = result.board],
                   sent |-> <<move>>]
             ELSE [local |-> local, sent |-> <<>>]

\* ------------------------------------------------------- specification
HandlerStep ==
    \/ \E s \in Sockets, g \in GameIds : JoinGameRecv(s, g)
    \/ \E s \in Sockets, g \in GameIds, m \in InputMoves : MoveRecv(s, g, m)
    \/ CreatePersist
    \/ CreateDispatch
    \/ Load
    \/ JoinAbort
    \/ JoinPersist
    \/ JoinDispatch
    \/ MoveAbort
    \/ MovePersist
    \/ MoveDispatch
    \/ KvGetFail
    \/ KvSetFail

RegistryStep ==
    \/ \E s \in Sockets : addUser(s)
    \/ \E s \in Sockets : removeUser(s)

Next ==
    \/ RegistryStep
    \/ \E s \in Sockets : CreateGameRecv(s)
    \/ HandlerStep

Spec == Init /\ [][Next]_vars

\* The behaviours in which generateGameId never returns an identifier that is
\* stored or being created and generatePlayerId never returns one handed out
\* before: every behaviour of SpecFresh is one of Spec.
GameIdInUse(g) ==
    \/ g \in DOMAIN store
    \/ \E h \in Running : h.kind = "create" /\ h.gameId = g

CreateGameRecvFresh(s) ==
    /\ CreateGameRecv(s)
    /\ \E h \in BagToSet(handlers') :
          /\ CopiesIn(h, handlers') > CopiesIn(h, handlers)
          /\ ~GameIdInUse(h.gameId)

addUserFresh(s) ==
    /\ addUser(s)
    /\ players'[s] = opened + 1

NextFresh ==
    \/ \E s \in Sockets : addUserFresh(s)
    \/ \E s \in Sockets : removeUser(s)
    \/ \E s \in Sockets : CreateGameRecvFresh(s)
    \/ HandlerStep

SpecFresh == Init /\ [][NextFresh]_vars

TypeOK ==
    /\ DOMAIN store \subseteq GameIds
    /\ \A g \in DOMAIN store : store[g].status \in {"waiting", "inprogress", "complete"}
    /\ DOMAIN sockets \subseteq PlayerIds
    /\ DOMAIN players \subseteq Sockets

\* ------------------------------------------------------------ properties
Rank(status) ==
    CASE status = "waiting" -> 0
      [] status = "inprogress" -> 1
      [] status = "complete" -> 2

IsPrefix(a, b) == Len(a) <= Len(b) /\ SubSeq(b, 1, Len(a)) = a

\* C1: the stored status of a game only moves forward along
\* waiting -> inprogress -> complete: no step changes it from complete to
\* inprogress or waiting, or from inprogress to waiting.
C1_StatusMonotonic ==
    [][\A g \in DOMAIN store :
         g \in DOMAIN store' /\ Rank(store'[g].status) >= Rank(store[g].status)]_vars

\* C2: the stored move log is append-only: across every step the earlier
\* moves list of a game is a prefix of the later one.
C2_MoveLogAppendOnly ==
    [][\A g \in DOMAIN store :
         g \in DOMAIN store' /\ IsPrefix(store[g].moves, store'[g].moves)]_vars

\* C3: player1Id never changes, and once player2Id is non-null no later
\* persist stores a different player2Id.
C3_PlayersImmutable ==
    [][\A g \in DOMAIN store :
         /\ g \in DOMAIN store'
         /\ store'[g].player1Id = store[g].player1Id
         /\ (store[g].player2Id # NULL => store'[g].player2Id = store[g].player2Id)]_vars

\* C4: once a record is stored with a non-null winner, every later stored
\* value has the same winner.
C4_WinnerSetOnce ==
    [][\A g \in DOMAIN store :
         store[g].winner # NoWinner =>
            g \in DOMAIN store' /\ store'[g].winner = store[g].winner]_vars

\* ---- C5
\* handler h takes a step / a handler arrives in state h
Leaves(h) == CopiesIn(h, handlers') < CopiesIn(h, handlers)
Arrives(h) == CopiesIn(h, handlers') > CopiesIn(h, handlers)

\* the record handler h loaded is no longer the stored one: another writer
\* has persisted since
Stale(h) ==
    /\ h.found
    /\ store[h.gameId] # h.game

\* handler h performs its kv.set in this step (and becomes h2)
Persists(h, h2) ==
    /\ h.pc = "loaded"
    /\ Leaves(h)
    /\ h2.pc = "stored"
    /\ Arrives(h2)

\* C5: a handler that persists after another writer has persisted since its
\* load overwrites that write: the stored record is the loaded copy with only
\* this handler's own change (the other writer's move or player2Id is gone);
\* and a writer whose record has been overwritten still sends its frames.
C5_LostUpdate ==
    [][\A h \in BagToSet(handlers) :
         /\ \A h2 \in BagToSet(handlers') :
              (Persists(h, h2) /\ Stale(h)) =>
                 LET old == h.game
                     new == store'[h.gameId]
                 IN  IF h.kind = "move"
                     THEN /\ Len(new.moves) = Len(old.moves) + 1
                          /\ IsPrefix(old.moves, new.moves)
                          /\ new.moves[Len(new.moves)].to = h.move.to
                          /\ new.player2Id = old.player2Id
                     ELSE /\ new.moves = old.moves
                          /\ new.fen = old.fen
                          /\ new.player2Id = h.playerId
                          /\ new.status = "inprogress"
         /\ (/\ h.pc = "stored"
             /\ Leaves(h)
             /\ h.kind = "move"
             /\ store[h.gameId] # h.game
             /\ h.game.status = "inprogress"
             /\ h.game.player1Id \in DOMAIN sockets
             /\ h.game.player2Id \in DOMAIN sockets) =>
               /\ Len(out') = 1
               /\ out'[1].type = "move"
               /\ out'[1].payload = h.move]_vars

\* a first writer's move frame has just been sent while a second writer, which
\* had loaded the same record, has persisted: the stored record is the second
\* writer's and its move log does not hold the move that was announced
C5_Witness ==
    \E h \in BagToSet(handlers), k \in 1..Len(out) :
        /\ h.pc = "stored"
        /\ h.kind \in {"move", "join"}
        /\ h.gameId \in DOMAIN store
        /\ store[h.gameId] = h.game
        /\ out[k].type = "move"
        /\ \A n \in 1..Len(h.game.moves) : h.game.moves[n].to # out[k].payload.to

\* ---- C6
\* C6: in every stored record player2Id is null exactly when status is waiting.
C6_Player2IffNotWaiting ==
    \A g \in DOMAIN store :
        (store[g].player2Id = NULL) <=> (store[g].status = "waiting")

\* a record a join has been persisted to
C6_Witness ==
    \E g \in DOMAIN store :
        store[g].player2Id # NULL /\ store[g].status = "inprogress"

\* ---- C7
\* C7: in every stored record winner is non-null exactly when status is complete.
C7_WinnerIffComplete ==
    \A g \in DOMAIN store :
        (store[g].winner # NoWinner) <=> (store[g].status = "complete")

\* a game that ended in a draw is stored
C7_Witness ==
    \E g \in DOMAIN store :
        store[g].status = "complete" /\ store[g].winner = "draw"

\* ---- C8
\* C8: the stored position is the one obtained by replaying the stored move
\* log from the initial position, and white is to move exactly when the log
\* has even length.
C8_ReplayReproducesFen ==
    \A g \in DOMAIN store :
        /\ store[g].fen = Fen(Replay(store[g].moves))
        /\ (Turn(ChessFromFen(store[g].fen)) = "w") <=> (Len(store[g].moves) % 2 = 0)

\* a record with a move is stored while the different record of a racing
\* writer has been overwritten
C8_Witness ==
    \E g \in DOMAIN store :
        /\ Len(store[g].moves) >= 1
        /\ \E h \in BagToSet(handlers) :
              /\ h.pc = "stored"
              /\ h.kind = "move"
              /\ h.gameId = g
              /\ h.game # store[g]

\* ---- C9
\* the sender of the move is not the player to move in the loaded record
OutOfTurn(h) ==
    /\ h.kind = "move"
    /\ h.pc = "loaded"
    /\ h.found
    /\ h.playerId # (IF h.game.fen[2] = "w" THEN h.game.player1Id ELSE h.game.player2Id)

\* the step is the return of handler h: nothing is written and nothing sent
ReturnsSilently(h) ==
    /\ Leaves(h)
    /\ BagCardinality(handlers') = BagCardinality(handlers) - 1
    /\ store' = store
    /\ out' = <<>>

\* C9: a move whose sender is not the player to move in the game's record
\* changes no stored record (so neither its move log nor its position) and
\* sends no frame.
C9_OutOfTurnIgnored ==
    [][\A h \in BagToSet(handlers) :
         (OutOfTurn(h) /\ Leaves(h)) => ReturnsSilently(h)]_vars

\* an out-of-turn move by a participant of a game in progress that would be
\* legal on the board
C9_Witness ==
    \E h \in BagToSet(handlers) :
        /\ OutOfTurn(h)
        /\ h.game.status = "inprogress"
        /\ h.playerId \in {h.game.player1Id, h.game.player2Id}
        /\ IsLegal(ChessFromFen(h.game.fen), h.move)

\* ---- C10
\* the move is illegal in the loaded position
IllegalMove(h) ==
    /\ h.kind = "move"
    /\ h.pc = "loaded"
    /\ h.found
    /\ ~IsLegal(ChessFromFen(h.game.fen), h.move)

\* C10: a move the rules engine rejects for the loaded position changes no
\* stored record and sends no frame of any type.
C10_IllegalMoveIgnored ==
    [][\A h \in BagToSet(handlers) :
         (IllegalMove(h) /\ Leaves(h)) => ReturnsSilently(h)]_vars

\* an illegal move by the player to move in a game in progress
C10_Witness ==
    \E h \in BagToSet(handlers) :
        /\ IllegalMove(h)
        /\ h.game.status = "inprogress"
        /\ h.game.player2Id # NULL
        /\ ~OutOfTurn(h)

\* ---- C11
\* the record the join handler loaded exists and is not open to a second player
Unavailable(h) ==
    /\ h.kind = "join"
    /\ h.pc = "loaded"
    /\ h.found
    /\ (h.game.player2Id # NULL \/ h.game.status # "waiting")

\* the frames of one send to player pid: dropped when pid has no live socket
FramesTo(pid, type, payload) ==
    IF pid \in DOMAIN sockets
    THEN <<[sock |-> sockets[pid], type |-> type, payload |-> payload]>>
    ELSE <<>>

\* C11: a join_game whose loaded record has a status other than waiting or a
\* player2Id already set ends with exactly one frame, an error frame for the
\* sender (dropped when the sender has disconnected meanwhile), writes no
\* record and sends no init_game frame.
C11_UnavailableJoinRejected ==
    [][\A h \in BagToSet(handlers) :
         (Unavailable(h) /\ Leaves(h)) =>
            /\ BagCardinality(handlers') = BagCardinality(handlers) - 1
            /\ store' = store
            /\ out' = FramesTo(h.playerId, "error",
                                [message |-> "Game is not available to join."])
            /\ \A k \in 1..Len(out') : out'[k].type # "init_game"]_vars

\* the error frame has just been sent to a connected sender, for a game that
\* is stored with both players
C11_Witness ==
    /\ Len(out) = 1
    /\ out[1].type = "error"
    /\ out[1].payload.message = "Game is not available to join."
    /\ out[1].sock \in DOMAIN players
    /\ \E g \in DOMAIN store : store[g].player2Id # NULL

\* ---- C12
\* the move handler found no record, or loaded one that is waiting or complete
NotInPlay(h) ==
    /\ h.kind = "move"
    /\ h.pc = "loaded"
    /\ (~h.found \/ h.game.status \in {"waiting", "complete"})

\* C12: a move addressed to a game that does not exist, or whose loaded record
\* has status waiting or complete, changes no stored record and sends no frame
\* to any connection, not even an error to the sender.
C12_MoveOutsidePlayIgnored ==
    [][\A h \in BagToSet(handlers) :
         (NotInPlay(h) /\ Leaves(h)) => ReturnsSilently(h)]_vars

\* the creator of a game nobody has joined sends a move that the board would
\* accept
C12_Witness ==
    \E h \in BagToSet(handlers) :
        /\ NotInPlay(h)
        /\ h.found
        /\ h.game.status = "waiting"
        /\ h.playerId = h.game.player1Id
        /\ h.playerId \in DOMAIN sockets
        /\ IsLegal(ChessFromFen(h.game.fen), h.move)

\* ---- C13
\* the step is the dispatch of a move handler whose stored record is not
\* complete
ForwardsMove(h) ==
    /\ h.kind = "move"
    /\ h.pc = "stored"
    /\ h.game.status # "complete"
    /\ Leaves(h)

\* the participant of h's game that is not the sender
OpponentOf(h) ==
    IF h.playerId = h.game.player1Id THEN h.game.player2Id ELSE h.game.player1Id

\* C13: when a move is accepted and the game is not complete afterwards,
\* exactly one move frame carrying that move is sent, to the connection of the
\* sender's opponent (dropped when the opponent has disconnected), and no frame
\* goes to the sender's own connection.
C13_MoveForwardedToOpponentOnly ==
    [][\A h \in BagToSet(handlers) :
         ForwardsMove(h) =>
            /\ out' = FramesTo(OpponentOf(h), "move", h.move)
            /\ \A k \in 1..Len(out') :
                  ~(h.playerId \in DOMAIN sockets /\ out'[k].sock = sockets[h.playerId])]_vars

\* ---- C14
\* the position the move of handler h leads to, from the record h loaded
PositionAfter(h) == AfterMove(ChessFromFen(h.game.fen), h.move)

\* C14: when an accepted move produces a checkmate position the record is
\* stored with status complete and the winner is the colour of the player who
\* made the move (white for player1Id, black for player2Id); when the final
\* position is not checkmate the winner is draw; and the dispatch that follows
\* sends game_over with that same winner to the connection of player1Id and to
\* the connection of player2Id (each dropped when that player is disconnected)
\* and nothing else.
C14_GameOverWinner ==
    [][\A h \in BagToSet(handlers) :
         /\ \A h2 \in BagToSet(handlers') :
              (Persists(h, h2) /\ h.kind = "move" /\ IsGameOver(PositionAfter(h))) =>
                 LET new == store'[h.gameId]
                 IN  /\ new.status = "complete"
                     /\ h2.game = new
                     /\ IF IsCheckmate(PositionAfter(h))
                        THEN \/ /\ new.winner = "white"
                                /\ h.game.fen[2] = "w"
                                /\ h.playerId = h.game.player1Id
                             \/ /\ new.winner = "black"
                                /\ h.game.fen[2] = "b"
                                /\ h.playerId = h.game.player2Id
                        ELSE new.winner = "draw"
         /\ (h.kind = "move" /\ h.pc = "stored" /\ h.game.status = "complete" /\ Leaves(h)) =>
               out' = FramesTo(h.game.player1Id, "game_over", [winner |-> h.game.winner])
                      \o FramesTo(h.game.player2Id, "game_over", [winner |-> h.game.winner])]_vars

\* a mating move is stored and both players, on two connections, have just
\* been sent game_over with the stored winner
C14_Witness ==
    \E g \in DOMAIN store :
        /\ store[g].status = "complete"
        /\ store[g].winner \in {"white", "black"}
        /\ IsCheckmate(ChessFromFen(store[g].fen))
        /\ Len(out) = 2
        /\ out[1].sock # out[2].sock
        /\ \A k \in 1..2 : out[k].type = "game_over" /\ out[k].payload.winner = store[g].winner

\* ---- C15
\* C15: a join_game whose loaded record is waiting with no player2Id stores
\* that record with player2Id = sender and status inprogress and nothing else
\* changed; the dispatch that follows sends init_game with colour white to the
\* connection of player1Id and then init_game with colour black to the
\* connection of player2Id, both with the game's identifier; a frame for a
\* disconnected player is dropped, the other frame is still sent, and the
\* dispatch changes no stored record.
C15_JoinStartsGame ==
    [][\A h \in BagToSet(handlers) :
         /\ \A h2 \in BagToSet(handlers') :
              (Persists(h, h2) /\ h.kind = "join") =>
                 /\ h.game.status = "waiting"
                 /\ h.game.player2Id = NULL
                 /\ store'[h.gameId] =
                       [gameId |-> h.gameId,
                        player1Id |-> h.game.player1Id,
                        player2Id |-> h.playerId,
                        fen |-> h.game.fen,
                        moves |-> h.game.moves,
                        status |-> "inprogress",
                        winner |-> h.game.winner]
                 /\ h2.game = store'[h.gameId]
                 /\ out' = <<>>
         /\ (h.kind = "join" /\ h.pc = "stored" /\ Leaves(h)) =>
               /\ out' = FramesTo(h.game.player1Id, "init_game",
                                   [color |-> "white", gameId |-> h.gameId])
                          \o FramesTo(h.game.player2Id, "init_game",
                                      [color |-> "black", gameId |-> h.gameId])
               /\ store' = store]_vars

\* the joiner has just been sent init_game with colour black while the
\* creator, who has disconnected, was sent nothing; the game is stored in
\* progress with both players
C15_Witness ==
    \E g \in DOMAIN store :
        /\ store[g].status = "inprogress"
        /\ store[g].player1Id \notin DOMAIN sockets
        /\ store[g].player2Id \in DOMAIN sockets
        /\ out = <<[sock |-> sockets[store[g].player2Id], type |-> "init_game",
                    payload |-> [color |-> "black", gameId |-> g]]>>

\* ---- C16
\* C16: create_game stores, under an identifier no stored game has, a record
\* with player1Id = sender, player2Id null, the initial position, an empty
\* move log, status waiting and winner null; it changes no game record that
\* already exists; and it sends game_created with that identifier to the
\* sender's connection only.
C16_CreateStoresFreshGame ==
    [][\A h \in BagToSet(handlers) :
         /\ \A h2 \in BagToSet(handlers') :
              (h.kind = "create" /\ h.pc = "received" /\ Leaves(h)
                 /\ h2.pc = "stored" /\ Arrives(h2)) =>
                 /\ h.gameId \notin DOMAIN store
                 /\ store'[h.gameId] =
                       [gameId |-> h.gameId,
                        player1Id |-> h.playerId,
                        player2Id |-> NULL,
                        fen |-> <<StartSq, "w", 0>>,
                        moves |-> <<>>,
                        status |-> "waiting",
                        winner |-> NoWinner]
                 /\ \A g \in DOMAIN store : store'[g] = store[g]
                 /\ out' = <<>>
         /\ (h.kind = "create" /\ h.pc = "stored" /\ Leaves(h)) =>
               out' = FramesTo(h.playerId, "game_created", [gameId |-> h.gameId])]_vars

\* ---- C17
\* the step unbinds a connection
Disconnects ==
    /\ DOMAIN players' # DOMAIN players
    /\ DOMAIN players' \subseteq DOMAIN players

\* game g is in progress and one of its players has no live connection
Abandoned(g) ==
    /\ store[g].status = "inprogress"
    /\ \/ store[g].player1Id \notin DOMAIN sockets
       \/ store[g].player2Id \notin DOMAIN sockets

RegistryInverse ==
    /\ \A s \in DOMAIN players :
          players[s] \in DOMAIN sockets /\ sockets[players[s]] = s
    /\ \A p \in DOMAIN sockets :
          sockets[p] \in DOMAIN players /\ players[sockets[p]] = p

\* C18: after every addUser and removeUser the identity-to-socket map and the
\* socket-to-identity map are mutual inverses (every connected socket has one
\* identity, distinct sockets have distinct identities, and the identity
\* resolves to the socket); a removed socket is left in neither map; and a
\* removeUser of a socket the registry does not know changes nothing.
C18_RegistryMutualInverse ==
    [][/\ RegistryInverse'
       /\ \A s \in DOMAIN players :
             s \notin DOMAIN players' => \A p \in DOMAIN sockets' : sockets'[p] # s
       /\ (events' # events /\ handlers' = handlers /\ DOMAIN players' = DOMAIN players) =>
             (players' = players /\ sockets' = sockets /\ store' = store)]_vars

\* ---- C19
\* the step is the end of handler h by a rejected kv.get: h was waiting for
\* its record and ends without one
FailsAtGet(h) ==
    /\ h.pc = "received"
    /\ h.kind \in {"join", "move"}
    /\ Leaves(h)
    /\ BagCardinality(handlers') = BagCardinality(handlers) - 1

\* the step is the end of handler h by a rejected kv.set: h had passed every
\* check of its message and ends without reaching its dispatch
FailsAtSet(h) ==
    /\ \/ h.pc = "received" /\ h.kind = "create"
       \/ /\ h.pc = "loaded" /\ h.kind = "join" /\ h.found
          /\ h.game.status = "waiting" /\ h.game.player2Id = NULL
       \/ /\ h.pc = "loaded" /\ h.kind = "move" /\ h.found
          /\ h.game.status = "inprogress" /\ h.game.player2Id # NULL
          /\ h.playerId = (IF h.game.fen[2] = "w" THEN h.game.player1Id
                                                  ELSE h.game.player2Id)
          /\ IsLegal(ChessFromFen(h.game.fen), h.move)
    /\ Leaves(h)
    /\ BagCardinality(handlers') = BagCardinality(handlers) - 1

Reachable(h) ==
    (IF h.game.player1Id \in DOMAIN sockets THEN 1 ELSE 0)
    + (IF h.game.player2Id \in DOMAIN sockets THEN 1 ELSE 0)

\* C20: the dispatch of an accepted move sends one kind of frame only: when the
\* record the handler stored is complete, game_over frames, one for player1Id
\* and one for player2Id (as far as connected), and no move frame, so the
\* final move is not forwarded; otherwise at most one frame, a move frame (one
\* when the opponent is connected), and no game_over frame.
C20_OneKindOfNotification ==
    [][\A h \in BagToSet(handlers) :
         (h.kind = "move" /\ h.pc = "stored" /\ Leaves(h)) =>
            IF h.game.status = "complete"
            THEN /\ Len(out') = Reachable(h)
                 /\ \A k \in 1..Len(out') : out'[k].type = "game_over"
            ELSE /\ Len(out') = (IF OpponentOf(h) \in DOMAIN sockets THEN 1 ELSE 0)
                 /\ \A k \in 1..Len(out') : out'[k].type = "move"]_vars

\* a move that did not end the game has just been forwarded: the only frame
\* sent is a move frame, to a connection other than the sender's, and the
\* stored game is in progress with that move as the last of its log
C20_Witness ==
    /\ Len(out) = 1
    /\ out[1].type = "move"
    /\ \E g \in DOMAIN store :
          /\ store[g].status = "inprogress"
          /\ Len(store[g].moves) >= 1
          /\ store[g].moves[Len(store[g].moves)].to = out[1].payload.to
          /\ store[g].player1Id \in DOMAIN sockets
          /\ out[1].sock # sockets[store[g].player1Id]

\* ---- C21
\* the frames that announce a change of a game record
ChangeFrames == {"game_created", "init_game", "move", "game_over"}

\* frame f announces the change held by record game, written by the handler
\* of a message from playerId carrying move
Reflects(game, playerId, move, f) ==
    CASE f.type = "game_created" ->
            /\ f.payload.gameId = game.gameId
            /\ game.player1Id = playerId
            /\ game.status = "waiting"
      [] f.type = "init_game" ->
            /\ f.payload.gameId = game.gameId
            /\ game.player2Id = playerId
            /\ game.status = "inprogress"
      [] f.type = "move" ->
            /\ game.moves # <<>>
            /\ game.moves[Len(game.moves)].to = f.payload.to
            /\ game.fen[1] = f.payload.to
            /\ game.status = "inprogress"
      [] f.type = "game_over" ->
            /\ game.status = "complete"
            /\ game.winner = f.payload.winner
            /\ game.moves # <<>>
            /\ game.moves[Len(game.moves)].to = move.to

\* C21: in every handler the persist precedes the dispatch: a handler reaches
\* its dispatch only by a step that completes its kv.set, after which the store
\* holds the handler's record and in which no frame is sent; and a
\* game_created, init_game, move or game_over frame is sent only by a handler
\* that has reached its dispatch this way, and announces the change that
\* record holds.
C21_PersistPrecedesDispatch ==
    [][/\ \A h2 \in BagToSet(handlers') :
             (h2.pc = "stored" /\ Arrives(h2)) =>
                /\ h2.gameId \in DOMAIN store'
                /\ store'[h2.gameId] = h2.game
                /\ out' = <<>>
       /\ (\E k \in 1..Len(out') : out'[k].type \in ChangeFrames) =>
             \E h \in BagToSet(handlers) :
                 /\ h.pc = "stored"
                 /\ Leaves(h)
                 /\ \A k \in 1..Len(out') :
                       Reflects(h.game, h.playerId, h.move, out'[k])]_vars

\* a move has just been forwarded while the kv.set of its record is the last
\* write to the game: the store holds the position the frame announces
C21_Witness ==
    /\ Len(out) = 1
    /\ out[1].type = "move"
    /\ \E g \in DOMAIN store :
          /\ store[g].status = "inprogress"
          /\ store[g].fen[1] = out[1].payload.to
          /\ store[g].fen[2] = "b"
          /\ store[g].player1Id # store[g].player2Id
          /\ out[1].sock = sockets[store[g].player2Id]

\* ---- C22
\* C22: in every stored record with a non-null player2Id, player2Id differs
\* from player1Id: a join_game sent by the connection that created the game
\* never makes that connection both players of the game.
C22_PlayersDiffer ==
    \A g \in DOMAIN store :
        store[g].player2Id # NULL => store[g].player2Id # store[g].player1Id

\* ---- C23
\* the sender of the move is neither player of the record the handler loaded
Outsider(h) ==
    /\ h.kind = "move"
    /\ h.pc = "loaded"
    /\ h.found
    /\ h.playerId # h.game.player1Id
    /\ h.playerId # h.game.player2Id

\* C23: only the two participants of a game change it through moves: every
\* record a move handler persists names the sender as its player1Id or its
\* player2Id, and a move whose sender is neither player of the game changes
\* no stored record and sends no frame, whatever the position and the move.
C23_OnlyParticipantsMove ==
    [][\A h \in BagToSet(handlers) :
         /\ \A h2 \in BagToSet(handlers') :
              (Persists(h, h2) /\ h.kind = "move") =>
                 \/ h.playerId = store'[h.gameId].player1Id
                 \/ h.playerId = store'[h.gameId].player2Id
         /\ (Outsider(h) /\ Leaves(h)) => ReturnsSilently(h)]_vars

\* a connected player who is neither player of a game in progress sends a
\* move that the board would accept in the stored position
C23_Witness ==
    \E h \in BagToSet(handlers) :
        /\ Outsider(h)
        /\ h.playerId \in DOMAIN sockets
        /\ h.game.status = "inprogress"
        /\ store[h.gameId] = h.game
        /\ IsLegal(ChessFromFen(h.game.fen), h.move)

\* ---- C24
\* C24: for each game identifier at most one join succeeds.  Every join that
\* completes its kv.set goes on to send init_game to player1Id's connection
\* and, with colour black, to its own sender's, so the claim is that a join
\* completes its kv.set only on a game no join has been stored for: at that
\* step the stored record has no player2Id and is waiting.
C24_AtMostOneJoinSucceeds ==
    [][\A h \in BagToSet(handlers) :
         \A h2 \in BagToSet(handlers') :
            (Persists(h, h2) /\ h.kind = "join") =>
               /\ store[h.gameId].player2Id = NULL
               /\ store[h.gameId].status = "waiting"]_vars

\* ---- C25
\* the Game screen of a player of colour color who has followed the game up
\* to position chess
Following(chess, color) ==
    [chess |-> chess, playerColor |-> color, status |-> "Game started."]

\* the colour init_game gave player pid of record game
ColorOf(game, pid) == IF pid = game.player1Id THEN "w" ELSE "b"

\* the frames of a sequence sent to socket sock
FramesFor(frames, sock) == SelectSeq(frames, LAMBDA f : f.sock = sock)

\* C25: client and server converge.  Two connected clients have followed a
\* game up to its stored position; one of them plays, on its own turn, a move
\* its local board accepts, and the server handles it with no other handler
\* running.  Once the frames of the dispatch have been processed, the local
\* position of the sender and the local position of the opponent both equal
\* the position of the stored record, also when the move ends the game.
C25_ClientsConverge ==
    [][\A h \in BagToSet(handlers) :
         (/\ h.kind = "move"
          /\ h.pc = "stored"
          /\ Leaves(h)
          /\ handlers' = EmptyBag
          /\ store[h.gameId] = h.game
          /\ h.game.player1Id # h.game.player2Id
          /\ h.game.player1Id \in DOMAIN sockets
          /\ h.game.player2Id \in DOMAIN sockets) =>
            LET before == Replay(SubSeq(h.game.moves, 1, Len(h.game.moves) - 1))
                sender == GameHandleMove(
                              Following(before, ColorOf(h.game, h.playerId)), h.move)
                opponent == GameEffects(
                                Following(before, ColorOf(h.game, OpponentOf(h))),
                                FramesFor(out', sockets[OpponentOf(h)]))
            IN  /\ sender.sent = <<h.move>>
                /\ Fen(sender.local.chess) = store'[h.gameId].fen
                /\ Fen(opponent.chess) = store'[h.gameId].fen]_vars

====
